---- MODULE Spec2Model ----
(***************************************************************************)
(* A model of app.py (the blog-post generator): the text helpers           *)
(* normalize_spaces, split_title_and_body, ensure_hashtags_30 and          *)
(* md_to_html_for_naver, the OpenAI wrapper and the generate handler with  *)
(* its session state.                                                      *)
(*                                                                         *)
(* A Python str is a sequence of Unicode code points (naturals): "a:" is   *)
(* <<97, 58>>.  Character classes are the ranges the source's regular      *)
(* expressions and str methods use.                                        *)
(***************************************************************************)
EXTENDS Integers, Sequences, FiniteSets, TLC

VARIABLES
    pc,             \* position of the run being modelled
    s,              \* normalize_spaces: the argument
    s1,             \* normalize_spaces(s)
    s2,             \* normalize_spaces(normalize_spaces(s))
    required,       \* ensure_hashtags_30: the required tags
    keywords,       \* ensure_hashtags_30: the keywords
    base,           \* ensure_hashtags_30: its list `base` at the return
    tags_line,      \* ensure_hashtags_30: the line returned
    generated,      \* split_title_and_body: the generated text
    fallback_title, \* split_title_and_body: the fallback title
    title,          \* split_title_and_body: the title returned
    body,           \* split_title_and_body: the body returned
    md_text,        \* md_to_html_for_naver: the argument
    html_parts,     \* md_to_html_for_naver: its list html_parts after the loop
    html_out,       \* md_to_html_for_naver: the document returned, part by part
    secrets,        \* st.secrets
    openai_lib,     \* whether `from openai import OpenAI` succeeded
    session_state,  \* st.session_state: the keys present and their values
    topic_text,     \* the topic field in the last run of the script
    pressed,        \* whether the generate button started the last run
    outcome,        \* what the handler reported in the last run
    result_shown,   \* what the result section rendered in the last run
    prompt,         \* the prompt of the last call of call_openai_text that returned
    raw,            \* the text call_openai_text returned last
    prompt_built,   \* whether the last run built a prompt
    api_called      \* whether the last run called the API

normVars == <<s, s1, s2>>
tagVars == <<required, keywords, base, tags_line>>
splitVars == <<generated, fallback_title, title, body>>
htmlVars == <<md_text, html_parts, html_out>>
appVars == <<secrets, openai_lib, session_state, topic_text, pressed, outcome,
             result_shown, prompt, raw, prompt_built, api_called>>
vars == <<pc, normVars, tagVars, splitVars, htmlVars, appVars>>

-----------------------------------------------------------------------------
(* Generic sequence helpers *)

\* All sequences over A of length 0..n.
SeqsUpTo(A, n) == UNION {[1..k -> A] : k \in 0..n}

\* The concatenation f[lo] \o ... \o f[hi], by halving (shallow recursion).
RECURSIVE FlatRange(_, _, _)
FlatRange(f, lo, hi) ==
    IF lo > hi THEN <<>>
    ELSE IF lo = hi THEN f[lo]
    ELSE LET mid == (lo + hi) \div 2
         IN  FlatRange(f, lo, mid) \o FlatRange(f, mid + 1, hi)

\* The sequence f with its elements worked out once, as a tuple.
Values(f) == SubSeq(f, 1, Len(f))

\* x[from:] of Python, 1-based: the elements of x from index `from` on.
From(x, from) == SubSeq(x, from, Len(x))

-----------------------------------------------------------------------------
(* Character classes *)

\* What Python's str.strip()/str.isspace() and the regex class \s call whitespace.
IsSpace(c) ==
    \/ c \in 9..13 \/ c \in 28..32 \/ c = 133 \/ c = 160 \/ c = 5760
    \/ c \in 8192..8202 \/ c \in {8232, 8233, 8239, 8287, 12288}

\* The regex class [ \t].
IsBlank(c) == c = 32 \/ c = 9

\* The regex class [가-힣A-Za-z0-9] of normalize_spaces.
IsColonWord(c) ==
    \/ c \in 44032..55203
    \/ c \in 65..90 \/ c \in 97..122 \/ c \in 48..57

\* First index >= p whose character is not whitespace (Len(x)+1 if none): \s* forward.
RECURSIVE SkipSpaces(_, _)
SkipSpaces(x, p) ==
    IF p <= Len(x) /\ IsSpace(x[p]) THEN SkipSpaces(x, p + 1) ELSE p

\* Last index <= p whose character is not whitespace (0 if none).
RECURSIVE BackSpaces(_, _)
BackSpaces(x, p) ==
    IF p >= 1 /\ IsSpace(x[p]) THEN BackSpaces(x, p - 1) ELSE p

\* First index >= p whose character is not in [ \t].
RECURSIVE SkipBlanks(_, _)
SkipBlanks(x, p) ==
    IF p <= Len(x) /\ IsBlank(x[p]) THEN SkipBlanks(x, p + 1) ELSE p

\* str.strip()
Strip(x) ==
    LET a == SkipSpaces(x, 1)
        b == BackSpaces(x, Len(x))
    IN  IF a > b THEN <<>> ELSE SubSeq(x, a, b)

\* str.rstrip()
RStrip(x) == SubSeq(x, 1, BackSpaces(x, Len(x)))

-----------------------------------------------------------------------------
(* normalize_spaces *)

\* re.sub(r"([가-힣A-Za-z0-9])\s*:\s*", r"\1: ", s).  A match starts at every
\* word character that is followed, after optional whitespace, by a colon: a
\* match consumes only whitespace and one colon after its word character, so no
\* match hides the start of another.  Position by position: a match start
\* yields "<char>: ", the whitespace and the colon a match consumed yield
\* nothing, every other character is copied.
ColonMatchStart(x, p) ==
    /\ IsColonWord(x[p])
    /\ LET c == SkipSpaces(x, p + 1) IN c <= Len(x) /\ x[c] = 58

ColonOfMatch(x, p) ==
    /\ x[p] = 58
    /\ LET w == BackSpaces(x, p - 1) IN w >= 1 /\ IsColonWord(x[w])

ColonConsumed(x, p) ==
    \/ ColonOfMatch(x, p)
    \/ /\ IsSpace(x[p])
       /\ LET w == BackSpaces(x, p - 1)
          IN  /\ w >= 1
              /\ \/ ColonMatchStart(x, w)    \* the \s* before the colon
                 \/ ColonOfMatch(x, w)       \* the \s* after the colon

ColonPiece(x, p) ==
    IF ColonMatchStart(x, p) THEN <<x[p], 58, 32>>
    ELSE IF ColonConsumed(x, p) THEN <<>>
    ELSE <<x[p]>>

ColonSub(x) == FlatRange([p \in 1..Len(x) |-> ColonPiece(x, p)], 1, Len(x))

\* re.sub(r"[ \t]+\n", "\n", s): a run of blanks goes when a line break follows it.
TrailingBlankPiece(x, p) ==
    IF IsBlank(x[p]) /\ LET e == SkipBlanks(x, p) IN e <= Len(x) /\ x[e] = 10
    THEN <<>> ELSE <<x[p]>>

TrailingBlankSub(x) ==
    FlatRange([p \in 1..Len(x) |-> TrailingBlankPiece(x, p)], 1, Len(x))

\* re.sub(r"\n{3,}", "\n\n", s): of a run of three or more line breaks the
\* first two stay.
NewlineRunPiece(x, p) ==
    IF p >= 3 /\ x[p] = 10 /\ x[p - 1] = 10 /\ x[p - 2] = 10
    THEN <<>> ELSE <<x[p]>>

NewlineRunSub(x) ==
    FlatRange([p \in 1..Len(x) |-> NewlineRunPiece(x, p)], 1, Len(x))

\* The colon rule with the replacement r"\1:" (no space after the colon).
normalize_spaces_nospace(x) ==
    LET piece(p) == IF ColonMatchStart(x, p) THEN <<x[p], 58>>
                    ELSE IF ColonConsumed(x, p) THEN <<>>
                    ELSE <<x[p]>>
    IN  Strip(NewlineRunSub(TrailingBlankSub(
            FlatRange([p \in 1..Len(x) |-> piece(p)], 1, Len(x)))))

\* The colon rule without its trailing \s*: the spaces after a colon stay.
normalize_spaces_keepafter(x) ==
    LET piece(p) == IF ColonMatchStart(x, p) THEN <<x[p], 58, 32>>
                    ELSE IF \/ x[p] = 58 /\ ColonOfMatch(x, p)
                            \/ IsSpace(x[p]) /\ LET w == BackSpaces(x, p - 1)
                                                IN w >= 1 /\ ColonMatchStart(x, w)
                         THEN <<>> ELSE <<x[p]>>
    IN  Strip(NewlineRunSub(TrailingBlankSub(
            FlatRange([p \in 1..Len(x) |-> piece(p)], 1, Len(x)))))

normalize_spaces(x) ==
    Strip(NewlineRunSub(TrailingBlankSub(ColonSub(x))))

-----------------------------------------------------------------------------
(* Specification of normalize_spaces applied twice, as the generate handler *)
(* does (to the raw text, then to the assembled document).                  *)

MaxNormLen == 5

\* 'a', a Hangul syllable, ':', ' ', '\t', '\n', '-'
NormAlphabet == {97, 44032, 58, 32, 9, 10, 45}

NormIdle == s = <<>> /\ s1 = <<>> /\ s2 = <<>>
TagsIdle == required = <<>> /\ keywords = <<>> /\ base = <<>> /\ tags_line = <<>>
SplitIdle == generated = <<>> /\ fallback_title = <<>> /\ title = <<>> /\ body = <<>>
HtmlIdle == md_text = <<>> /\ html_parts = <<>> /\ html_out = <<>>

\* st.session_state before any generation: none of the three keys.
EmptySession ==
    [keys |-> {}, generated_title |-> <<>>, generated_md |-> <<>>, generated_html |-> <<>>]

\* st.secrets without the key OPENAI_API_KEY.
NoSecrets == [keys |-> {}, OPENAI_API_KEY |-> <<>>]

AppIdle ==
    /\ secrets = NoSecrets
    /\ openai_lib = FALSE
    /\ session_state = EmptySession
    /\ topic_text = <<>>
    /\ pressed = FALSE
    /\ outcome = "none"
    /\ result_shown = "none"
    /\ prompt = <<>>
    /\ raw = <<>>
    /\ prompt_built = FALSE
    /\ api_called = FALSE

InitNorm ==
    /\ pc = "norm"
    /\ s \in SeqsUpTo(NormAlphabet, MaxNormLen)
    /\ s1 = <<>>
    /\ s2 = <<>>
    /\ TagsIdle
    /\ SplitIdle
    /\ HtmlIdle
    /\ AppIdle

NormalizeOnce ==
    /\ pc = "norm"
    /\ s1' = normalize_spaces(s)
    /\ pc' = "norm1"
    /\ UNCHANGED <<s, s2, tagVars, splitVars, htmlVars, appVars>>

NormalizeTwice ==
    /\ pc = "norm1"
    /\ s2' = normalize_spaces(s1)
    /\ pc' = "norm2"
    /\ UNCHANGED <<s, s1, tagVars, splitVars, htmlVars, appVars>>

NextNorm == NormalizeOnce \/ NormalizeTwice

SpecNorm == InitNorm /\ [][NextNorm]_vars

\* C3: normalize_spaces is idempotent: normalizing an already normalized text
\* changes nothing.
C3_Idempotent == pc = "norm2" => s2 = s1

\* C3 witness: a text with a colon at a line end, a whitespace-only line and a
\* run of line breaks has been normalized twice, and the first pass changed it.
C3_Witness ==
    /\ pc = "norm2"
    /\ s = <<97, 58, 10, 32, 10>>
    /\ s1 = <<97, 58>>

\* A colon at index p of x that directly follows a letter, a digit or a Hangul
\* syllable.
WordColonAt(x, p) == p >= 2 /\ x[p] = 58 /\ IsColonWord(x[p - 1])

\* Exactly one space follows index p of x.
OneSpaceAfter(x, p) ==
    /\ p + 1 <= Len(x) /\ x[p + 1] = 32
    /\ p + 2 <= Len(x) => x[p + 2] # 32

\* C4 as stated: in the output of normalize_spaces every colon directly after
\* a letter, a digit or a Hangul syllable is followed by exactly one space,
\* wherever it stands, the end of the text included.
C4_ColonSpaceEverywhere ==
    pc # "norm" => \A p \in 1..Len(s1) : WordColonAt(s1, p) => OneSpaceAfter(s1, p)

\* C4 amended: every such colon is followed by exactly one space unless it is
\* the last character of the output (strip() removes the space there).
C4_ColonSpaceUnlessLast ==
    pc # "norm" =>
        \A p \in 1..Len(s1) :
            WordColonAt(s1, p) /\ p < Len(s1) => OneSpaceAfter(s1, p)

\* C4 witness: a colon at a line end inside the text got its one space, and
\* the colon that ends the text has none.
C4_Witness ==
    /\ pc = "norm1"
    /\ s = <<97, 58, 10, 97, 58>>
    /\ s1 = <<97, 58, 32, 97, 58>>

-----------------------------------------------------------------------------
(* ensure_hashtags_30 *)

\* The limit of `len(base) >= 30` and `base[:30]`.
TagLimit == 30

\* str.lower() on the characters the model uses (ASCII and Hangul).
Lower(c) == IF c \in 65..90 THEN c + 32 ELSE c
LowerStr(x) == [i \in 1..Len(x) |-> Lower(x[i])]

\* x[:n]
Take(x, n) == SubSeq(x, 1, IF n < Len(x) THEN n ELSE Len(x))

\* " ".join(list)
JoinSpace(list) ==
    FlatRange([i \in 1..Len(list) |-> IF i = 1 THEN list[i] ELSE <<32>> \o list[i]],
              1, Len(list))

\* re.sub(r"\s+", "", k)
RemoveSpaces(k) == SelectSeq(k, LAMBDA c : ~IsSpace(c))

filler == <<
    <<35,44200,50872,53076,46356>>,
    <<35,48388,53076,46356>>,
    <<35,44036,51208,44592,53076,46356>>,
    <<35,50724,54588,49828,47337>>,
    <<35,54616,44061,47337>>,
    <<35,54617,44368,49345,45812,47337>>,
    <<35,52404,54805,52964,48260>>,
    <<35,45936,51068,47532,54056,49496>>,
    <<35,51473,45380,53076,46356>>,
    <<35,48120,49884,47337>>,
    <<35,49900,54540,47337>>,
    <<35,44984,50504,44984>>,
    <<35,49828,53440,51068,47553>>,
    <<35,53076,46356,52628,52380>>,
    <<35,50668,49457,54056,49496>>,
    <<35,49660,54609,47792,52628,52380>>,
    <<35,50724,45720,51032,53076,46356>>,
    <<35,45936,51068,47532,53076,46356>>,
    <<35,52,48,45824,53076,46356>>,
    <<35,53,48,45824,53076,46356>>,
    <<35,51473,45380,50668,49457>>
>>

\* The duplicate test on the tag as written, not on its lower case.
add_case_sensitive(st, tag) ==
    LET t0 == Strip(tag)
        t == IF t0 # <<>> /\ t0[1] # 35 THEN <<35>> \o t0 ELSE t0
    IN  IF t0 = <<>> \/ t \in st.seen THEN st
        ELSE [base |-> Append(st.base, t), seen |-> st.seen \cup {t}]

\* The inner function add(tag), on the pair of `base` and `seen`.
add(st, tag) ==
    LET t0 == Strip(tag)
        t == IF t0 # <<>> /\ t0[1] # 35 THEN <<35>> \o t0 ELSE t0
        k == LowerStr(t)
    IN  IF t0 = <<>> \/ k \in st.seen THEN st
        ELSE [base |-> Append(st.base, t), seen |-> st.seen \cup {k}]

\* for t in required: add(t)
RECURSIVE AddRequired(_, _, _)
AddRequired(st, req, i) ==
    IF i > Len(req) THEN st ELSE AddRequired(add(st, req[i]), req, i + 1)

\* for k in keywords: k2 = re.sub(r"\s+", "", k); if k2: add("#" + k2)
RECURSIVE AddKeywords(_, _, _)
AddKeywords(st, kws, i) ==
    IF i > Len(kws) THEN st
    ELSE LET k2 == RemoveSpaces(kws[i])
         IN  AddKeywords(IF k2 # <<>> THEN add(st, <<35>> \o k2) ELSE st, kws, i + 1)

\* for t in filler: if len(base) >= 30: break; add(t)
RECURSIVE AddFiller(_, _)
AddFiller(st, i) ==
    IF i > Len(filler) \/ Len(st.base) >= TagLimit THEN st
    ELSE AddFiller(add(st, filler[i]), i + 1)

\* The list `base` when ensure_hashtags_30 returns.
HashtagBase(req, kws) ==
    AddFiller(AddKeywords(AddRequired([base |-> <<>>, seen |-> {}], req, 1), kws, 1), 1).base

ensure_hashtags_30(req, kws) == JoinSpace(Take(HashtagBase(req, kws), TagLimit))

\* The `required` list the generate handler passes for a product post.
ProductRequired == <<
    <<35,48120,49397>>,
    <<35,50668,49457,51032,47448>>,
    <<35,52636,44540,47337>>,
    <<35,45936,51068,47532,47337>>,
    <<35,111,111,116,100>>,
    <<35,52,48,45824,50668,49457,51032,47448>>,
    <<35,53,48,45824,50668,49457,51032,47448>>,
    <<35,51473,45380,50668,49457,54056,49496>>
>>

-----------------------------------------------------------------------------
(* Specification of one call of ensure_hashtags_30 *)

MaxRequired == 2
MaxKeywords == 2
MaxLongRequired == 31

\* "#a", "A", " b ", " "
RequiredPool == {<<35, 97>>, <<65>>, <<32, 98, 32>>, <<32>>}

\* "a", "#a", "B", "a b", " " and the first filler tag without its '#'
KeywordPool ==
    {<<97>>, <<35, 97>>, <<66>>, <<97, 32, 98>>, <<32>>, From(filler[1], 2)}

\* "#tNN" for odd i, "TNN" (no '#', upper case) for even i.
NumberedTag(i) ==
    IF i % 2 = 1 THEN <<35, 116, 48 + (i \div 10), 48 + (i % 10)>>
    ELSE <<84, 48 + (i \div 10), 48 + (i % 10)>>

\* n numbered tags, all distinct.
LongDistinct(n) == [i \in 1..n |-> NumberedTag(i)]

\* n numbered tags of which every fourth repeats its predecessor in the other case.
LongRepeating(n) ==
    [i \in 1..n |-> IF i % 4 = 0
                    THEN <<35, 84, 48 + ((i - 1) \div 10), 48 + ((i - 1) % 10)>>
                    ELSE NumberedTag(i)]

RequiredLists ==
    SeqsUpTo(RequiredPool, MaxRequired) \cup {ProductRequired}
    \cup {LongDistinct(n) : n \in 28..MaxLongRequired}
    \cup {LongRepeating(n) : n \in 28..MaxLongRequired}

KeywordLists == SeqsUpTo(KeywordPool, MaxKeywords)

InitTags ==
    /\ pc = "tags"
    /\ required \in RequiredLists
    /\ keywords \in KeywordLists
    /\ base = <<>>
    /\ tags_line = <<>>
    /\ NormIdle
    /\ SplitIdle
    /\ HtmlIdle
    /\ AppIdle

EnsureHashtags ==
    /\ pc = "tags"
    /\ base' = HashtagBase(required, keywords)
    /\ tags_line' = ensure_hashtags_30(required, keywords)
    /\ pc' = "tags_done"
    /\ UNCHANGED <<required, keywords, normVars, splitVars, htmlVars, appVars>>

NextTags == EnsureHashtags

SpecTags == InitTags /\ [][NextTags]_vars

\* The number of tags on a line: its maximal runs of non-whitespace characters.
CountTags(line) ==
    Cardinality({p \in 1..Len(line) :
                    ~IsSpace(line[p]) /\ (p = 1 \/ IsSpace(line[p - 1]))})

\* A list keywords_from_csv can return: trimmed, non-empty items, no two equal
\* ignoring case.
IsKeywordList(kws) ==
    /\ \A i \in 1..Len(kws) : kws[i] # <<>> /\ Strip(kws[i]) = kws[i]
    /\ \A i, j \in 1..Len(kws) : i # j => LowerStr(kws[i]) # LowerStr(kws[j])

\* C1: for the two required lists the generate handler passes and every
\* keyword list, the empty one included, the line returned holds exactly 30
\* hashtags.
C1_AlwaysThirty ==
    pc = "tags_done" /\ required \in {ProductRequired, <<>>} /\ IsKeywordList(keywords)
        => CountTags(tags_line) = 30

\* The reference sequence of C2: required tags, then "#" + keyword without
\* its whitespace for every keyword that has any other character, then the
\* filler; each trimmed, '#' prepended when missing, empty ones and
\* case-insensitive repeats dropped.
RefTrimmed(tag) ==
    LET t == Strip(tag) IN IF t # <<>> /\ t[1] # 35 THEN <<35>> \o t ELSE t

RefCandidates(req, kws) ==
    LET kw == [i \in 1..Len(kws) |-> <<35>> \o RemoveSpaces(kws[i])]
    IN  [i \in 1..Len(req) |-> RefTrimmed(req[i])]
        \o SelectSeq([i \in 1..Len(kw) |-> RefTrimmed(kw[i])], LAMBDA t : Len(t) > 1)
        \o [i \in 1..Len(filler) |-> RefTrimmed(filler[i])]

RefSequence(req, kws) ==
    LET c == RefCandidates(req, kws)
        first(i) == /\ c[i] # <<>>
                    /\ \A j \in 1..(i - 1) : LowerStr(c[j]) # LowerStr(c[i])
        idx == SelectSeq([i \in 1..Len(c) |-> i], first)
    IN  [n \in 1..Len(idx) |-> c[idx[n]]]

\* C2: the result is the first min(30, D) elements of the reference sequence,
\* joined by single spaces; so it has at most 30 tags and no two of them are
\* equal ignoring case.
C2_FirstThirtyOfReference ==
    pc = "tags_done" =>
        LET ref == RefSequence(required, keywords)
            d == IF Len(ref) < 30 THEN Len(ref) ELSE 30
        IN  /\ Take(base, 30) = SubSeq(ref, 1, d)
            /\ tags_line = JoinSpace(SubSeq(ref, 1, d))
            /\ \A i, j \in 1..d :
                   i # j => LowerStr(Take(base, 30)[i]) # LowerStr(Take(base, 30)[j])

\* C2 witness: 31 required tags of which some repeat in another case, and a
\* keyword equal to a filler tag: fewer than 30 distinct required tags, the
\* keyword tag is taken, its filler twin is dropped and the line is cut at 30.
C2_Witness ==
    /\ pc = "tags_done"
    /\ required = LongRepeating(31)
    /\ keywords = <<From(filler[1], 2)>>
    /\ Len(base) = 30
    /\ base[25] = filler[1]
    /\ base[26] = filler[2]

-----------------------------------------------------------------------------
(* strip_title_prefix and split_title_and_body *)

\* The bounds of `len(title) < 4 or len(title) > 90`.
TitleMin == 4
TitleMax == 90

\* x.startswith(prefix)
StartsWith(x, prefix) ==
    Len(x) >= Len(prefix) /\ SubSeq(x, 1, Len(prefix)) = prefix

\* The same, ignoring the case of ASCII letters (re.IGNORECASE on "TITLE").
StartsWithIgnoreCase(x, prefix) ==
    Len(x) >= Len(prefix) /\ LowerStr(SubSeq(x, 1, Len(prefix))) = LowerStr(prefix)

\* The index after a match of  \s*[:：]\s*  that starts at index p of x, or 0
\* when there is none.
AfterColonLabel(x, p) ==
    LET c == SkipSpaces(x, p)
    IN  IF c <= Len(x) /\ x[c] \in {58, 65306} THEN SkipSpaces(x, c + 1) ELSE 0

\* re.sub(r"^(<word>\s*[:：]\s*)", "", l), with or without re.IGNORECASE
StripColonLabel(l, word, ignorecase) ==
    LET starts == IF ignorecase THEN StartsWithIgnoreCase(l, word)
                  ELSE StartsWith(l, word)
        e == IF starts THEN AfterColonLabel(l, Len(word) + 1) ELSE 0
    IN  IF e = 0 THEN l ELSE From(l, e)

\* re.sub(r"^(\[제목\]\s*)", "", l)
StripBracketLabel(l) ==
    IF StartsWith(l, <<91, 51228, 47785, 93>>) THEN From(l, SkipSpaces(l, 5)) ELSE l

strip_title_prefix(line) ==
    LET l0 == Strip(line)
        l1 == StripColonLabel(l0, <<51228, 47785>>, FALSE)
        l2 == StripBracketLabel(l1)
        l3 == StripColonLabel(l2, <<84, 73, 84, 76, 69>>, TRUE)
    IN  Strip(l3)

\* The characters str.splitlines() breaks lines at.
IsLineBreak(c) == c \in {10, 11, 12, 13, 28, 29, 30, 133, 8232, 8233}

\* Index p of x is the last character of a line terminator ("\r\n" is one).
EndsTerminator(x, p) ==
    IsLineBreak(x[p]) /\ ~(x[p] = 13 /\ p < Len(x) /\ x[p + 1] = 10)

\* The first character of the terminator that ends at p.
TerminatorStart(x, p) ==
    IF x[p] = 10 /\ p > 1 /\ x[p - 1] = 13 THEN p - 1 ELSE p

\* str.splitlines(): the lines without their terminators; no empty last line
\* after a final terminator.
splitlines(x) ==
    LET ends == SelectSeq([p \in 1..Len(x) |-> p], LAMBDA p : EndsTerminator(x, p))
        last == IF Len(ends) = 0 THEN 0 ELSE ends[Len(ends)]
        n == Len(ends) + (IF last < Len(x) THEN 1 ELSE 0)
    IN  [k \in 1..n |->
            LET a == IF k = 1 THEN 1 ELSE ends[k - 1] + 1
                b == IF k <= Len(ends) THEN TerminatorStart(x, ends[k]) - 1 ELSE Len(x)
            IN  SubSeq(x, a, b)]

\* "\n".join(list)
JoinLines(list) ==
    FlatRange([i \in 1..Len(list) |-> IF i = 1 THEN list[i] ELSE <<10>> \o list[i]],
              1, Len(list))

\* The loop `for i, ln in enumerate(lines): if ln.strip(): title_idx = i; break`,
\* 1-based; 0 stands for None.
RECURSIVE FirstNonBlank(_, _)
FirstNonBlank(lines, i) ==
    IF i > Len(lines) THEN 0
    ELSE IF Strip(lines[i]) # <<>> THEN i
    ELSE FirstNonBlank(lines, i + 1)

\* The length test with <= for <: a title of exactly 4 characters is refused.
split_title_and_body_le(gen, fallback) ==
    LET txt == Strip(gen)
        lines == splitlines(txt)
        title_idx == FirstNonBlank(lines, 1)
        t == strip_title_prefix(lines[title_idx])
    IN  IF txt = <<>> THEN [title |-> fallback, body |-> <<>>]
        ELSE IF title_idx = 0 THEN [title |-> fallback, body |-> txt]
        ELSE [title |-> IF Len(t) <= TitleMin \/ Len(t) > TitleMax THEN fallback ELSE t,
              body |-> Strip(JoinLines(From(lines, title_idx + 1)))]

split_title_and_body(gen, fallback) ==
    LET txt == Strip(gen)
        lines == splitlines(txt)
        title_idx == FirstNonBlank(lines, 1)
        t == strip_title_prefix(lines[title_idx])
    IN  IF txt = <<>> THEN [title |-> fallback, body |-> <<>>]
        ELSE IF title_idx = 0 THEN [title |-> fallback, body |-> txt]
        ELSE [title |-> IF Len(t) < TitleMin \/ Len(t) > TitleMax THEN fallback ELSE t,
              body |-> Strip(JoinLines(From(lines, title_idx + 1)))]

-----------------------------------------------------------------------------
(* Specification of one call of split_title_and_body *)

MaxTitleLen == 92

\* n times the letter 't'
Letters(n) == [i \in 1..n |-> 116]

\* "", "\n ", " "
SplitLeads == {<<>>, <<10, 32>>, <<32>>}

\* "", "제목: ", "[제목] ", "title : ", "TITLE：", "TITLE: 제목:"
SplitLabels ==
    {<<>>, <<51228, 47785, 58, 32>>, <<91, 51228, 47785, 93, 32>>,
     <<116, 105, 116, 108, 101, 32, 58, 32>>, <<84, 73, 84, 76, 69, 65306>>,
     <<84, 73, 84, 76, 69, 58, 32, 51228, 47785, 58>>}

\* "", " \n", "\nbody", "\n\nb1\r\nb2\n ", "\rtttt\n\n\nb:"
SplitTails ==
    {<<>>, <<32, 10>>, <<10, 98, 111, 100, 121>>,
     <<10, 10, 98, 49, 13, 10, 98, 50, 10, 32>>,
     <<13, 116, 116, 116, 116, 10, 10, 10, 98, 58>>}

InitSplit ==
    /\ pc = "split"
    /\ \E lead \in SplitLeads, label \in SplitLabels, n \in 0..MaxTitleLen,
          tail \in SplitTails :
           generated = lead \o label \o Letters(n) \o tail
    /\ fallback_title = <<70, 66>>
    /\ title = <<>>
    /\ body = <<>>
    /\ NormIdle
    /\ TagsIdle
    /\ HtmlIdle
    /\ AppIdle

SplitTitleAndBody ==
    /\ pc = "split"
    /\ title' = split_title_and_body(generated, fallback_title).title
    /\ body' = split_title_and_body(generated, fallback_title).body
    /\ pc' = "split_done"
    /\ UNCHANGED <<generated, fallback_title, normVars, tagVars, htmlVars, appVars>>

NextSplit == SplitTitleAndBody

SpecSplit == InitSplit /\ [][NextSplit]_vars

\* The index of the first line of `lines` that has a non-whitespace character.
FirstNonBlankLine(lines) ==
    CHOOSE i \in 1..Len(lines) :
        /\ \E p \in 1..Len(lines[i]) : ~IsSpace(lines[i][p])
        /\ \A j \in 1..(i - 1) : \A p \in 1..Len(lines[j]) : IsSpace(lines[j][p])

\* C5: (fallback, "") for an empty or whitespace-only text; otherwise the title
\* is the first non-blank line without its label prefixes when that has 4..90
\* characters and the fallback when it has fewer or more, and the body is the
\* lines strictly after that line, joined and trimmed.
C5_TitleAndBody ==
    pc = "split_done" =>
        IF \A p \in 1..Len(generated) : IsSpace(generated[p])
        THEN title = fallback_title /\ body = <<>>
        ELSE LET lines == splitlines(generated)
                 i == FirstNonBlankLine(lines)
                 cand == strip_title_prefix(lines[i])
             IN  /\ Len(cand) \in 4..90 => title = cand
                 /\ Len(cand) <= 3 \/ Len(cand) >= 91 => title = fallback_title
                 /\ body = Strip(JoinLines([k \in 1..(Len(lines) - i) |-> lines[i + k]]))

\* C5 witness: a labelled first line of exactly 4 characters after a blank
\* line became the title, and the two lines after it the body.
C5_Witness ==
    /\ pc = "split_done"
    /\ generated = <<10, 32>> \o <<84, 73, 84, 76, 69, 65306>> \o Letters(4)
                   \o <<10, 10, 98, 49, 13, 10, 98, 50, 10, 32>>
    /\ title = Letters(4)
    /\ body = <<98, 49, 10, 98, 50>>

-----------------------------------------------------------------------------
(* md_to_html_for_naver *)

\* The document is kept part by part: one record per string appended to
\* html_parts, `tag` naming the markup the renderer wrote around `text`.
\*   table, thead_tr, th, thead_end, tbody, tr, td, tr_end, table_end,
\*   br, h1, h2, h3, blockquote, ul, li, ul_end, p
\* and brbr for the "<br/><br/>" the final re.sub writes.
Part(tag, text) == [tag |-> tag, text |-> text]

\* html.escape(x, quote=False) without the '&': only '<' and '>' are replaced.
esc_angle_only(x) ==
    FlatRange([p \in 1..Len(x) |->
                  IF x[p] = 60 THEN <<38, 108, 116, 59>>
                  ELSE IF x[p] = 62 THEN <<38, 103, 116, 59>>
                  ELSE <<x[p]>>], 1, Len(x))

\* esc: html.escape(x, quote=False): & -> &amp;  < -> &lt;  > -> &gt;
esc(x) ==
    FlatRange([p \in 1..Len(x) |->
                  IF x[p] = 38 THEN <<38, 97, 109, 112, 59>>
                  ELSE IF x[p] = 60 THEN <<38, 108, 116, 59>>
                  ELSE IF x[p] = 62 THEN <<38, 103, 116, 59>>
                  ELSE <<x[p]>>], 1, Len(x))

\* x.split(chr(c)): the pieces between the occurrences of c, empty ones kept.
SplitOn(x, c) ==
    LET at == SelectSeq([p \in 1..Len(x) |-> p], LAMBDA p : x[p] = c)
    IN  [k \in 1..(Len(at) + 1) |->
            SubSeq(x, IF k = 1 THEN 1 ELSE at[k - 1] + 1,
                      IF k <= Len(at) THEN at[k] - 1 ELSE Len(x))]

\* md_text.replace("\r\n", "\n")
ReplaceCrLf(x) ==
    FlatRange([p \in 1..Len(x) |->
                  IF x[p] = 13 /\ p < Len(x) /\ x[p + 1] = 10 THEN <<>> ELSE <<x[p]>>],
              1, Len(x))

\* s.strip("|")
RECURSIVE SkipPipes(_, _)
SkipPipes(x, p) == IF p <= Len(x) /\ x[p] = 124 THEN SkipPipes(x, p + 1) ELSE p
RECURSIVE BackPipes(_, _)
BackPipes(x, p) == IF p >= 1 /\ x[p] = 124 THEN BackPipes(x, p - 1) ELSE p
StripPipes(x) ==
    LET a == SkipPipes(x, 1)
        b == BackPipes(x, Len(x))
    IN  IF a > b THEN <<>> ELSE SubSeq(x, a, b)

\* x[a..b] matches  \s*<class>+  : whitespace, then at least one character of
\* the class, up to b.
SpacesThenClass(x, a, b, class) ==
    \E j \in a..b :
        /\ \A q \in a..(j - 1) : IsSpace(x[q])
        /\ \A q \in j..b : x[q] \in class

\* re.match(r"^\|\s*[-: ]+\|\s*[-:| ]+\|?$", s)
IsSeparatorRow(x) ==
    /\ Len(x) >= 1 /\ x[1] = 124
    /\ \E i \in 3..Len(x) :
          /\ x[i] = 124
          /\ SpacesThenClass(x, 2, i - 1, {45, 58, 32})
          /\ SpacesThenClass(x, i + 1, Len(x), {45, 58, 124, 32})

\* s.startswith("|") and "|" in s[1:]
IsTableRow(x) ==
    /\ Len(x) >= 1 /\ x[1] = 124
    /\ \E q \in 2..Len(x) : x[q] = 124

\* [c.strip() for c in s.strip("|").split("|")]
Cells(x) == LET c == SplitOn(StripPipes(x), 124) IN [k \in 1..Len(c) |-> Strip(c[k])]

\* flush_table(), on the record of in_table, table_rows and html_parts.
flush_table(st) ==
    IF ~st.in_table \/ st.table_rows = <<>>
    THEN [st EXCEPT !.in_table = FALSE, !.table_rows = <<>>]
    ELSE LET header == st.table_rows[1]
             rows == From(st.table_rows, 2)
             th == [k \in 1..Len(header) |-> Part("th", esc(header[k]))]
             tr == [r \in 1..Len(rows) |->
                       <<Part("tr", <<>>)>>
                       \o [k \in 1..Len(rows[r]) |-> Part("td", esc(rows[r][k]))]
                       \o <<Part("tr_end", <<>>)>>]
         IN  [in_table |-> FALSE,
              table_rows |-> <<>>,
              html_parts |-> st.html_parts
                  \o <<Part("table", <<>>), Part("thead_tr", <<>>)>> \o th
                  \o <<Part("thead_end", <<>>), Part("tbody", <<>>)>>
                  \o FlatRange(tr, 1, Len(tr))
                  \o <<Part("table_end", <<>>)>>]

\* What a line that is neither separator nor table row appends.
LineParts(ln) ==
    LET x == Strip(ln)
    IN  IF x = <<>> THEN <<Part("br", <<>>)>>
        ELSE IF StartsWith(x, <<35, 35, 35, 32>>) THEN <<Part("h3", esc(From(x, 5)))>>
        ELSE IF StartsWith(x, <<35, 35, 32>>) THEN <<Part("h2", esc(From(x, 4)))>>
        ELSE IF StartsWith(x, <<35, 32>>) THEN <<Part("h1", esc(From(x, 3)))>>
        ELSE IF StartsWith(x, <<62>>) THEN <<Part("blockquote", esc(Strip(From(x, 2))))>>
        ELSE IF StartsWith(x, <<45, 32>>)
             THEN <<Part("ul", <<>>), Part("li", esc(Strip(From(x, 3)))), Part("ul_end", <<>>)>>
        ELSE <<Part("p", esc(ln))>>

\* One pass of the body of `for ln in lines`.
RenderLine(st, ln) ==
    LET x == Strip(ln)
    IN  IF IsSeparatorRow(x) THEN st
        ELSE IF IsTableRow(x)
             THEN [st EXCEPT !.in_table = TRUE,
                             !.table_rows = Append(IF st.in_table THEN @ ELSE <<>>, Cells(x))]
        ELSE LET f == IF st.in_table THEN flush_table(st) ELSE st
             IN  [f EXCEPT !.html_parts = @ \o LineParts(ln)]

\* The loop `for ln in lines` over lines[lo..hi], entered with the state st:
\* the first half, then the second half from the state the first half left.
\* (The two branches of the test are the same; the test makes the first half
\* be evaluated before the second begins, which keeps the evaluation shallow.)
RECURSIVE RenderLines(_, _, _, _)
RenderLines(st, lines, lo, hi) ==
    IF lo > hi THEN st
    ELSE IF lo = hi THEN RenderLine(st, lines[lo])
    ELSE LET mid == (lo + hi) \div 2
             half == RenderLines(st, lines, lo, mid)
         IN  IF half.in_table THEN RenderLines(half, lines, mid + 1, hi)
             ELSE RenderLines(half, lines, mid + 1, hi)

\* The end of the loop without `if in_table: flush_table()`.
FinishTable_noflush(st) == st

\* if in_table: flush_table()   (after the loop)
FinishTable(st) == IF st.in_table THEN flush_table(st) ELSE st

\* html_parts when the loop and the last flush are done.
HtmlParts(md) ==
    LET lines == SplitOn(ReplaceCrLf(Strip(md)), 10)
        st0 == [in_table |-> FALSE, table_rows |-> <<>>, html_parts |-> <<>>]
    IN  FinishTable(RenderLines(st0, lines, 1, Len(lines))).html_parts

\* The first and the last index of the run of br parts around index p.
RECURSIVE BrRunStart(_, _)
BrRunStart(parts, p) ==
    IF p > 1 /\ parts[p - 1].tag = "br" THEN BrRunStart(parts, p - 1) ELSE p
RECURSIVE BrRunEnd(_, _)
BrRunEnd(parts, p) ==
    IF p < Len(parts) /\ parts[p + 1].tag = "br" THEN BrRunEnd(parts, p + 1) ELSE p

\* re.sub(r"(<br/>\s*){3,}", "<br/><br/>", "\n".join(html_parts)): a run of
\* three or more br parts becomes one "<br/><br/>".  Escaped text holds no
\* '<', so only the renderer's own br parts match.
CollapseBr(parts) ==
    LET isBr(p) == p >= 1 /\ p <= Len(parts) /\ parts[p].tag = "br"
        piece(p) ==
            IF ~isBr(p) THEN <<parts[p]>>
            ELSE LET a == BrRunStart(parts, p)
                     b == BrRunEnd(parts, p)
                 IN  IF b - a + 1 < 3 THEN <<parts[p]>>
                     ELSE IF p = a THEN <<Part("brbr", <<>>)>>
                     ELSE <<>>
    IN  FlatRange([p \in 1..Len(parts) |-> piece(p)], 1, Len(parts))

md_to_html_for_naver(md) == CollapseBr(HtmlParts(md))

-----------------------------------------------------------------------------
(* Specification of one call of md_to_html_for_naver *)

MaxHtmlLines == 3

\* "| a<b | c |", "|---|---|", "|---|", "| x> |", "", "# h&", "## h<",
\* "### h>", "> q>", "- b<", "p & <i>", "&lt;\r"
HtmlLinePool ==
    {<<124,32,97,60,98,32,124,32,99,32,124>>, <<124,45,45,45,124,45,45,45,124>>,
     <<124,45,45,45,124>>, <<124,32,120,62,32,124>>, <<>>,
     <<35,32,104,38>>, <<35,35,32,104,60>>, <<35,35,35,32,104,62>>,
     <<62,32,113,62>>, <<45,32,98,60>>, <<112,32,38,32,60,105,62>>,
     <<38,108,116,59,13>>}

InitHtml ==
    /\ pc = "html"
    /\ \E lines \in SeqsUpTo(HtmlLinePool, MaxHtmlLines) : md_text = JoinLines(lines)
    /\ html_parts = <<>>
    /\ html_out = <<>>
    /\ NormIdle
    /\ TagsIdle
    /\ SplitIdle
    /\ AppIdle

MdToHtml ==
    /\ pc = "html"
    /\ html_parts' = HtmlParts(md_text)
    /\ html_out' = md_to_html_for_naver(md_text)
    /\ pc' = "html_done"
    /\ UNCHANGED <<md_text, normVars, tagVars, splitVars, appVars>>

NextHtml == MdToHtml

SpecHtml == InitHtml /\ [][NextHtml]_vars

\* The lines the renderer loops over, each trimmed.
InputLines(md) ==
    LET lines == SplitOn(ReplaceCrLf(Strip(md)), 10)
    IN  [i \in 1..Len(lines) |-> Strip(lines[i])]

\* A table line: a table row or a separator row.  A row that is not a separator.
TableLine(x) == IsSeparatorRow(x) \/ IsTableRow(x)
RowLine(x) == IsTableRow(x) /\ ~IsSeparatorRow(x)

\* Row line i is the first row of its run of table lines.
RunHead(lines, i) ==
    /\ RowLine(lines[i])
    /\ ~\E j \in 1..(i - 1) :
           RowLine(lines[j]) /\ \A k \in (j + 1)..(i - 1) : TableLine(lines[k])

\* The indices of the row lines of the run that starts with row line h, in order.
RunRows(lines, h) ==
    SelectSeq([i \in 1..Len(lines) |-> i],
              LAMBDA i : /\ i >= h /\ RowLine(lines[i])
                         /\ \A k \in h..i : TableLine(lines[k]))

\* The indices of the parts with a tag in `tags`, in order.
PartsTagged(parts, tags) ==
    SelectSeq([i \in 1..Len(parts) |-> i], LAMBDA i : parts[i].tag \in tags)

\* The texts of the parts tagged `tag` between indices a and b.
TextsBetween(parts, tag, a, b) ==
    LET at == SelectSeq([i \in 1..Len(parts) |-> i],
                        LAMBDA i : i > a /\ i < b /\ parts[i].tag = tag)
    IN  [k \in 1..Len(at) |-> parts[at[k]].text]

\* The tags that open the element of a line that is no table line.
ElementTags == {"br", "h1", "h2", "h3", "blockquote", "ul", "p"}

EscCells(x) == LET c == Cells(x) IN [k \in 1..Len(c) |-> esc(c[k])]

\* C6: one <table> per maximal run of table lines that has a row; its header
\* is the run's first row, its body rows are the other rows in input order
\* (none lost, none twice, also when the run ends the input); no table
\* without a row; each table stands after the elements of the lines before its
\* run and before the element of the line that ended it.
C6_OneTablePerRun ==
    pc = "html_done" =>
        LET lines == InputLines(md_text)
            heads == SelectSeq([i \in 1..Len(lines) |-> i], LAMBDA i : RunHead(lines, i))
            opens == PartsTagged(html_parts, {"table"})
            closes == PartsTagged(html_parts, {"table_end"})
        IN  /\ Len(opens) = Len(heads)
            /\ Len(closes) = Len(heads)
            /\ \A k \in 1..Len(heads) :
                  LET rows == RunRows(lines, heads[k])
                      trs == SelectSeq(PartsTagged(html_parts, {"tr"}),
                                       LAMBDA i : i > opens[k] /\ i < closes[k])
                      ends == SelectSeq(PartsTagged(html_parts, {"tr_end"}),
                                        LAMBDA i : i > opens[k] /\ i < closes[k])
                  IN  /\ opens[k] < closes[k]
                      /\ k < Len(heads) => closes[k] < opens[k + 1]
                      /\ TextsBetween(html_parts, "th", opens[k], closes[k])
                             = EscCells(lines[rows[1]])
                      /\ Len(trs) = Len(rows) - 1
                      /\ Len(ends) = Len(rows) - 1
                      /\ \A r \in 1..Len(trs) :
                            TextsBetween(html_parts, "td", trs[r], ends[r])
                                = EscCells(lines[rows[r + 1]])
                      /\ Cardinality({i \in 1..opens[k] : html_parts[i].tag \in ElementTags})
                             = Cardinality({i \in 1..heads[k] : ~TableLine(lines[i])})

\* C6 witness: a table of a header and one body row ends the input, after a
\* paragraph.
C6_Witness ==
    /\ pc = "html_done"
    /\ md_text = JoinLines(<< <<112,32,38,32,60,105,62>>,
                              <<124,32,97,60,98,32,124,32,99,32,124>>,
                              <<124,32,120,62,32,124>> >>)
    /\ Len(html_parts) = 11
    /\ html_parts[1].tag = "p"
    /\ html_parts[2].tag = "table"
    /\ html_parts[9].tag = "td"
    /\ html_parts[11].tag = "table_end"

\* Only dashes, colons and spaces, and at least one dash.
DashesOnly(x) == (\A p \in 1..Len(x) : x[p] \in {45, 58, 32}) /\ (\E p \in 1..Len(x) : x[p] = 45)

\* C7: a line that starts with '|' and whose cells hold only dashes, colons
\* and spaces is discarded, whatever the number of columns: no header or body
\* row of the output is made of such cells only, and no paragraph is such a line.
C7_SeparatorDiscarded ==
    pc = "html_done" =>
        /\ \A i \in 1..Len(html_parts) :
              html_parts[i].tag \in {"thead_tr", "tr"} =>
                  LET stop == CHOOSE j \in (i + 1)..Len(html_parts) :
                                  /\ html_parts[j].tag \in {"thead_end", "tr_end"}
                                  /\ \A q \in (i + 1)..(j - 1) :
                                        html_parts[q].tag \notin {"thead_end", "tr_end"}
                      cells == TextsBetween(html_parts, "th", i, stop)
                               \o TextsBetween(html_parts, "td", i, stop)
                  IN  ~\A k \in 1..Len(cells) : DashesOnly(cells[k])
        /\ \A i \in 1..Len(html_parts) :
              html_parts[i].tag = "p" =>
                  LET x == Strip(html_parts[i].text)
                  IN  ~(/\ Len(x) >= 2 /\ x[1] = 124
                        /\ DashesOnly(SelectSeq(x, LAMBDA c : c # 124)))

\* Escaped text: no '<', no '>', and every '&' starts &amp; &lt; or &gt;.
IsEscaped(x) ==
    \A p \in 1..Len(x) :
        /\ x[p] \notin {60, 62}
        /\ x[p] = 38 =>
              \/ p + 4 <= Len(x) /\ SubSeq(x, p + 1, p + 4) = <<97, 109, 112, 59>>
              \/ p + 3 <= Len(x) /\ SubSeq(x, p + 1, p + 3) \in {<<108, 116, 59>>, <<103, 116, 59>>}

\* The text an escaped text stands for.
Unescape(x) ==
    LET len(q) == IF x[q + 1] = 97 THEN 5 ELSE 4      \* &amp; or &lt; / &gt;
        inside(p) == \E q \in 1..(p - 1) : x[q] = 38 /\ p < q + len(q)
        piece(p) == IF x[p] = 38
                    THEN <<(IF x[p + 1] = 97 THEN 38 ELSE IF x[p + 1] = 108 THEN 60 ELSE 62)>>
                    ELSE IF inside(p) THEN <<>> ELSE <<x[p]>>
    IN  FlatRange([p \in 1..Len(x) |-> piece(p)], 1, Len(x))

\* u occurs in x as a run of consecutive characters.
OccursIn(u, x) ==
    \E a \in 1..(Len(x) + 1) :
        a + Len(u) - 1 <= Len(x) /\ SubSeq(x, a, a + Len(u) - 1) = u

\* C8: whatever the kind of line, the text of every part of the document is
\* in escaped form (no '<' or '>' of its own, every '&' an entity), and it is
\* the escaped form of a piece of the input.
C8_TextEscaped ==
    pc = "html_done" =>
        \A i \in 1..Len(html_out) :
            /\ IsEscaped(html_out[i].text)
            /\ OccursIn(Unescape(html_out[i].text), md_text)

\* C8 witness: a header cell, a body cell and a paragraph with '<', '>' and
\* '&' in them came out escaped.
C8_Witness ==
    /\ pc = "html_done"
    /\ \E i, j, k \in 1..Len(html_out) :
          /\ html_out[i] = Part("th", <<97, 38, 108, 116, 59, 98>>)
          /\ html_out[j] = Part("td", <<120, 38, 103, 116, 59>>)
          /\ html_out[k] = Part("p", <<112,32,38,97,109,112,59,32,38,108,116,59,105,38,103,116,59>>)

-----------------------------------------------------------------------------
(* Form inputs: keywords_from_csv, fix_url_spacing *)

\* First index >= p whose character is whitespace (Len(x)+1 if none): \S* forward.
RECURSIVE SkipNonSpaces(_, _)
SkipNonSpaces(x, p) ==
    IF p <= Len(x) /\ ~IsSpace(x[p]) THEN SkipNonSpaces(x, p + 1) ELSE p

\* The loop of keywords_from_csv: keep the first spelling of every item,
\* comparing case-insensitively.
RECURSIVE DedupeItems(_, _, _, _)
DedupeItems(items, i, seen, out) ==
    IF i > Len(items) THEN out
    ELSE LET k == LowerStr(items[i])
         IN  IF k \in seen THEN DedupeItems(items, i + 1, seen, out)
             ELSE DedupeItems(items, i + 1, seen \cup {k}, Append(out, items[i]))

keywords_from_csv(csv_text) ==
    IF csv_text = <<>> THEN <<>>
    ELSE LET parts == SplitOn(csv_text, 44)
             items == SelectSeq([k \in 1..Len(parts) |-> Strip(parts[k])],
                                LAMBDA it : it # <<>>)
         IN  DedupeItems(items, 1, {}, <<>>)

\* re.sub(scheme + r"\s*//", scheme + "//", u): the whitespace between a scheme
\* (with its colon) and the two slashes is dropped; everything else is kept.
SchemeGap(u, scheme, p) ==
    LET w == BackSpaces(u, p)
        r == SkipSpaces(u, p)
    IN  /\ IsSpace(u[p])
        /\ w >= Len(scheme)
        /\ SubSeq(u, w - Len(scheme) + 1, w) = scheme
        /\ r + 1 <= Len(u)
        /\ u[r] = 47 /\ u[r + 1] = 47

SchemeSub(u, scheme) ==
    SelectSeq([p \in 1..Len(u) |-> IF SchemeGap(u, scheme, p) THEN <<>> ELSE <<u[p]>>],
              LAMBDA piece : piece # <<>>)

Flatten(pieces) == FlatRange(pieces, 1, Len(pieces))

fix_url_spacing(url) ==
    LET u == Strip(url)
        u1 == Flatten(SchemeSub(u, <<104, 116, 116, 112, 115, 58>>))
    IN  Flatten(SchemeSub(u1, <<104, 116, 116, 112, 58>>))

-----------------------------------------------------------------------------
(* Prompts: platform_profile, build_misharp_prompt_narrative, build_general_prompt *)

\* platform_profile: the text returned at line 157
ProfileNaver ==
    <<10,91,45348,51060,48260,32,52572,51201,54868,93,10,45,32,44277,44048,8594,
      44221,54744,8594,54644,44208,8594,52628,52380,32,55120,47492,51004,47196,32,52404,47448,
      49884,44036,51012,32,50732,47536,45796,46,10,45,32,47928,45800,51008,32,50,
      126,52,47928,51109,44,32,47532,46316,44048,32,51080,44172,46,10,45,32,
      53412,50892,46300,45716,32,50613,51648,32,48152,48373,32,44552,51648,46,32,51088,
      50672,49828,47101,44172,32,48516,49328,46,10>>

\* platform_profile: the text returned at line 164
ProfileTistory ==
    <<10,91,54000,49828,53664,47532,40,45796,51020,47,52852,52852,50724,41,32,52572,
      51201,54868,93,10,45,32,49548,51228,47785,51004,47196,32,55120,47492,51012,32,
      51221,47532,54616,46104,44,32,48376,47928,51008,32,47928,51109,54805,32,49436,49324,
      47196,46,10,45,32,8216,47928,51228,8594,54644,44208,8594,52628,52380,8217,51060,
      32,51069,55176,44172,46,10,45,32,53412,50892,46300,45716,32,51088,50672,49828,
      47101,44172,32,48516,49328,40,45224,48156,32,44552,51648,41,46,10>>

\* platform_profile: the text returned at line 170
ProfileBlogger ==
    <<10,91,48660,47196,44144,40,44396,44544,41,32,52572,51201,54868,93,10,45,
      32,69,45,69,45,65,45,84,58,32,45824,54364,51032,32,54788,51109,
      32,44288,52272,47,44221,54744,47,44256,44061,32,48152,51025,51012,32,44540,44144,
      47196,46,10,45,32,49548,51228,47785,51008,32,47749,54869,55176,44,32,48376,
      47928,51008,32,47928,51109,54805,51004,47196,46,10,45,32,46041,51032,50612,47,
      50672,44288,50612,47196,32,51088,50672,32,54869,51109,40,48152,48373,32,45224,48156,
      32,44552,51648,41,46,10>>

\* build_misharp_prompt_narrative: literal text 1 of its f-string
MisharpText1 ==
    <<10,45320,45716,32,50,48,45380,52264,32,50668,49457,51032,47448,32,49660,54609,
      47792,32,48120,49397,40,77,73,83,72,65,82,80,41,32,45824,54364,
      51060,47728,44,10,52,48,53,48,32,50668,49457,32,44256,44061,51012,32,
      47588,51068,32,49345,45812,54644,50728,32,54788,51109,54805,32,77,68,45796,46,
      10,51060,32,44544,51008,32,8216,48660,47196,44536,50640,49436,32,44536,45824,47196,
      32,48156,54665,32,44032,45733,54620,32,50896,44256,8217,45796,46,10,10>>

\* build_misharp_prompt_narrative: literal text 2 of its f-string
MisharpText2 ==
    <<10,10,91,51208,45824,32,44508,52825,93,10,49,41,32,52395,32,47928,
      51109,51008,32,48152,46300,49884,32,50500,47000,32,44536,45824,47196,32,49884,51089,
      58,10,50504,45397,54616,49464,50836,94,94,32,51068,49345,46020,32,49828,53440,
      51068,46020,32,48120,49397,52376,47100,32,49900,54540,54616,44172,33,32,50,48,
      45380,52264,32,50668,49457,51032,47448,32,49660,54609,47792,32,48120,49397,32,45824,
      54364,51077,45768,45796,46,10,50,41,32,46160,32,48264,51704,32,47928,51109,
      51008,32,48152,46300,49884,32,44228,51208,47,45216,50472,47,49884,44592,32,44277,
      44048,32,43,32,50743,51109,32,50526,32,44256,48124,51012,32,45347,50612,46972,
      46,10,51,41,32,47568,53804,58,32,51316,45843,47568,32,44592,48376,46,
      32,45824,51473,51201,47,52880,51452,50620,46,32,46412,47196,32,49660,54609,54840,
      49828,53944,44,32,46412,47196,32,46041,45348,32,50743,44032,44172,32,49324,51109,
      45784,32,53668,46,10,52,41,32,44396,48516,49440,40,45,45,45,44,
      32,61,61,61,41,32,44552,51648,46,32,47928,45800,32,50672,44208,32,
      47928,51109,51004,47196,32,51088,50672,49828,47101,44172,32,51060,50612,46972,46,10,
      53,41,32,53084,47200,32,54364,44592,58,32,8220,45800,50612,58,32,44050,
      8221,32,54620,32,52856,32,46916,50612,50416,44592,46,10,54,41,32,48516,
      47049,58,32,52,44,48,48,48,126,53,44,48,48,48,51088,32,
      45236,50808,40,45320,47924,32,51687,44172,32,50416,51648,32,47568,32,44163,41,
      46,10,55,41,32,47560,51648,47561,32,51460,58,32,8220,51068,49345,46020,
      32,49828,53440,51068,46020,32,48120,49397,52376,47100,44,32,49900,54540,54616,44172,
      33,32,77,73,83,72,65,82,80,8221,10,56,41,32,54644,49884,
      53468,44536,32,51,48,44060,45716,32,47592,32,45149,32,54620,32,51460,46,
      10,10,91,47928,51109,54805,32,44508,52825,40,51473,50836,41,93,10,45,
      32,47532,49828,53944,40,48520,47551,41,45716,32,50724,51649,32,50,44060,32,
      49465,49496,50640,49436,47564,32,54728,50857,58,10,32,32,65,41,32,51060,
      47088,32,48516,46308,44760,32,52628,52380,54633,45768,45796,10,32,32,66,41,
      32,51060,47092,32,46412,32,50836,44596,54644,50836,10,45,32,44536,32,50808,
      32,47784,46304,32,49465,49496,50640,49436,45716,32,48520,47551,47,48264,54840,32,
      45208,50676,32,44552,51648,46,10,32,32,48152,46300,49884,32,47928,45800,40,
      50,126,52,47928,51109,41,51004,47196,32,54400,50612,50420,45796,46,10,45,
      32,50500,47000,32,54788,51109,32,47704,53944,47484,32,48376,47928,32,51473,32,
      52572,49548,32,50,54924,32,51088,50672,49828,47101,44172,32,54252,54632,58,10,
      32,32,8220,44256,44061,45784,46308,51060,32,51228,51068,32,47566,51060,32,54616,
      49884,45716,32,47568,51060,50836,46,8221,10,32,32,8220,51228,44032,32,50,
      48,45380,32,54616,47732,49436,32,54869,49892,55176,32,45712,45184,32,44148,45936,
      50836,46,8221,10,32,32,8220,50668,44592,49436,32,54252,51064,53944,45716,32,
      46385,32,54616,45208,50696,50836,46,8221,10,10,91,83,69,79,32,44508,
      52825,93,10,45,32,51228,47785,58,32,51,48,126,51,53,51088,32,
      44428,51109,46,32,48152,46300,49884,32,8220,91,48120,49397,93,8221,32,54252,
      54632,46,32,49345,50948,32,53412,50892,46300,32,49,44060,32,54252,54632,58,
      32>>

\* build_misharp_prompt_narrative: literal text 3 of its f-string
MisharpText3 ==
    <<10,45,32,48376,47928,32,51088,50672,32,49341,51077,40,50613,51648,32,44552,
      51648,41,58,32,48120,49397,44,32,50668,49457,51032,47448,44,32,52,48,
      45824,50668,49457,51032,47448,44,32,53,48,45824,50668,49457,51032,47448,44,32,
      52636,44540,47337,44,32,45936,51068,47532,47337,10,45,32,53412,50892,46300,40>>

\* build_misharp_prompt_narrative: literal text 4 of its f-string
MisharpText4 ==
    <<41,45716,32,47928,47589,32,49549,32,51088,50672,49828,47101,44172,32,48516,49328,
      40,52509,32,56,126,49,50,54924,32,45712,45196,41,44,32,45208,50676,
      47,48152,48373,32,44552,51648,46,10,10,91,44396,49457,40,49692,49436,32,
      50976,51648,41,93,10,49,41,32,51228,47785,40,49,51460,47564,41,10,
      50,41,32,52572,49345,45800,32,50836,50557,32,51,126,53,51460,40,47928,
      51109,54805,41,10,51,41,32,44277,44048,32,46020,51077,40,49373,54876,32,
      51109,47732,32,50,126,51,44060,32,43,32,50780,32,51060,32,50743,51060,
      32,54596,50836,54620,51648,41,10,52,41,32,51060,47088,32,48516,46308,44760,
      32,52628,52380,54633,45768,45796,40,48520,47551,32,53,126,55,44060,41,32,
      32,8592,32,50668,44592,47564,32,47532,49828,53944,32,54728,50857,10,53,41,
      32,51060,47092,32,46412,32,50836,44596,54644,50836,40,48520,47551,32,53,126,
      55,44060,41,32,32,32,32,32,32,32,32,8592,32,50668,44592,47564,
      32,47532,49828,53944,32,54728,50857,10,54,41,32,40,51088,50672,49828,47084,
      50868,32,51228,47785,41,32,51077,50632,51012,32,46412,32,8216,51221,46024,46104,
      45716,8217,32,45712,45196,40,46356,51088,51064,47,54607,58,32,47928,51109,54805,
      32,50,126,51,47928,45800,41,10,55,41,32,40,51088,50672,49828,47084,
      50868,32,51228,47785,41,32,54616,47336,44032,32,54200,54644,51648,45716,32,51060,
      50976,40,49548,51116,47,52265,50857,44048,58,32,47928,51109,54805,32,50,126,
      51,47928,45800,41,10,56,41,32,40,51088,50672,49828,47084,50868,32,51228,
      47785,41,32,44208,44397,32,49552,51060,32,44032,45716,32,50743,51032,32,51312,
      44148,40,44032,52824,47,44032,44201,58,32,47928,51109,54805,32,49,126,50,
      47928,45800,41,10,57,41,32,44256,44061,32,54980,44592,32,48152,51025,32,
      50836,50557,40,51312,44148,41,58,32>>

\* build_misharp_prompt_narrative: literal text 5 of its f-string
MisharpText5 ==
    <<10,49,48,41,32,54876,50857,49457,47,53076,46356,32,51228,50504,40,84,
      80,79,32,50672,44208,58,32,47928,51109,54805,32,50,126,51,47928,45800,
      41,10,49,49,41,32,40,51088,50672,49828,47084,50868,32,51228,47785,41,
      32,51060,32,50500,51060,53596,44,32,44845,32,47564,45208,48372,49464,50836,40,
      44277,44048,32,67,84,65,58,32,47928,51109,54805,32,49,47928,45800,41,
      10,49,50,41,32,50500,51060,53596,32,49324,51060,51592,32,49828,54169,32,
      54364,40,54364,45716,32,8216,54637,47785,47,44050,8217,32,54805,53468,47196,32,
      47564,46308,44592,41,10,49,51,41,32,49324,51060,51592,32,52628,52380,32,
      54364,40,54364,45716,32,8216,44592,51456,47,49888,51109,183,52404,51473,47,54217,
      49548,32,49345,51032,47,52628,52380,32,49324,51060,51592,47,53076,47704,53944,8217,
      32,54805,53468,47196,32,47564,46308,44592,41,10,49,52,41,32,52572,54616,
      45800,32,50836,50557,32,51,51460,40,47928,51109,54805,41,10,49,53,41,
      32,51064,50857,48149,49828,40,62,41,32,67,84,65,32,50,126,51,
      51460,10,49,54,41,32,49836,47196,44148,32,43,32,54644,49884,53468,44536,
      32,51,48,44060,40,54620,32,51460,41,10,10,91,54364,32,52636,47141,
      32,44508,52825,40,51473,50836,41,93,10,45,32,54364,32,50,44060,45716,
      32,48152,46300,49884,32,50500,47000,32,54805,49885,32,44536,45824,47196,32,52636,
      47141,40,72,84,77,76,32,48320,54872,50640,32,52572,51201,54868,41,58,
      10,32,32,54364,49,41,10,32,32,91,49324,51060,51592,32,49828,54169,
      93,10,32,32,124,32,54637,47785,32,124,32,44050,32,124,10,32,
      32,124,45,45,45,124,45,45,45,124,10,32,32,124,32,50612,
      44648,45800,47732,32,124,32,53,48,32,99,109,32,124,10,32,32,
      54364,50,41,10,32,32,91,49324,51060,51592,32,52628,52380,93,10,32,
      32,124,32,44592,51456,32,124,32,49888,51109,47,52404,51473,32,124,32,
      54217,49548,32,49345,51032,32,124,32,52628,52380,32,49324,51060,51592,32,124,
      32,53076,47704,53944,32,124,10,32,32,124,45,45,45,124,45,45,
      45,124,45,45,45,124,45,45,45,124,45,45,45,124,10,10,
      91,51077,47141,32,51221,48372,93,10,45,32,49345,54408,47749,58,32>>

\* build_misharp_prompt_narrative: literal text 6 of its f-string
MisharpText6 ==
    <<10,45,32,49345,54408,32,85,82,76,58,32>>

\* build_misharp_prompt_narrative: literal text 7 of its f-string
MisharpText7 ==
    <<10,45,32,54645,49900,32,53412,50892,46300,58,32>>

\* build_misharp_prompt_narrative: literal text 8 of its f-string
MisharpText8 ==
    <<10,10,45,32,49324,50857,51088,32,47700,47784,47,50896,44256,58,10>>

\* build_misharp_prompt_narrative: literal text 9 of its f-string
MisharpText9 ==
    <<10,10,45,32,49324,51060,51592,32,49828,54169,40,54364,32,51116,47308,41,
      58,10>>

\* build_misharp_prompt_narrative: literal text 10 of its f-string
MisharpText10 ==
    <<10,10,45,32,54980,44592,32,53581,49828,53944,58,10>>

\* build_misharp_prompt_narrative: literal text 11 of its f-string
MisharpText11 ==
    <<10,10,91,52636,47141,32,54805,49885,40,44053,51228,41,93,10,45,32,
      49,54665,58,32,51228,47785,47564,40,8220,51228,47785,58,8221,32,51217,46160,
      50612,32,44552,51648,41,10,45,32,50,54665,58,32,48712,32,51460,10,
      45,32,51,54665,48512,53552,58,32,48376,47928,40,47560,53356,45796,50868,41,
      10,45,32,47592,32,47560,51648,47561,32,51460,58,32,54644,49884,53468,44536,
      32,51,48,44060,32,54620,32,51460,10>>

\* build_general_prompt: literal text 1 of its f-string
GeneralText1 ==
    <<10,45320,45716,32>>

\* build_general_prompt: literal text 2 of its f-string
GeneralText2 ==
    <<32,83,69,79,50640,32,52572,51201,54868,46108,32,48660,47196,44536,32,44544,
      51012,32,50416,45716,32,51204,47928,44032,45796,46,10,48516,47049,58,32,50557,
      32,52,44,48,48,48,126,53,44,48,48,48,51088,46,10,53412,
      50892,46300,40>>

\* build_general_prompt: literal text 3 of its f-string
GeneralText3 ==
    <<41,45716,32,50613,51648,32,48152,48373,32,44552,51648,44,32,51088,50672,49828,
      47101,44172,32,48516,49328,46,10,52636,47141,51008,32,47560,53356,45796,50868,51004,
      47196,32,54620,45796,40,54364,44032,32,54596,50836,54616,47732,32,47560,53356,45796,
      50868,32,54364,32,49324,50857,41,46,10,10>>

\* build_general_prompt: literal text 4 of its f-string
GeneralText4 ==
    <<10,10,91,44544,32,49884,51089,32,44256,51221,93,10,50504,45397,54616,49464,
      50836,44,32,48,48,48,51077,45768,45796,46,32,40,49884,44592,51201,51004,
      47196,32,51201,51208,54620,32,51064,49343,47568,41,32,50724,45720,51008,32,40>>

\* build_general_prompt: literal text 5 of its f-string
GeneralText5 ==
    <<41,50640,32,45824,54644,32,50584,44592,54644,48380,44620,54644,50836,46,10,10,
      91,54596,49688,32,44396,49457,93,10,45,32,52572,49345,45800,32,44544,50836,
      50557,32,51,126,53,51460,10,45,32,51452,51228,44288,47144,32,51068,49345,
      51201,32,44277,44048,32,47928,51228,32,51228,44592,47,44277,44048,32,50976,46020,
      10,45,32,48376,47928,40,47928,45800,48324,32,49548,51228,47785,44,32,51221,
      48372,43,44221,54744,43,50696,49884,32,54844,54633,41,10,45,32,47560,51648,
      47561,32,50836,50557,32,51,51460,10,45,32,54644,49884,53468,44536,32,51,
      48,44060,40,54620,32,51460,41,10,45,32,47560,51648,47561,32,51064,49324,
      40,52285,51089,41,58,32,8220,50724,45720,32,51221,48372,44032,32,46020,50880,
      51060,32,46104,50632,51004,47732,32,54633,45768,45796,8221,32,52712,51648,10,10,
      91,51077,47141,32,47700,47784,93,10>>

\* build_general_prompt: literal text 6 of its f-string
GeneralText6 ==
    <<10,10,91,52636,47141,32,54805,49885,93,10,45,32,49,54665,58,32,
      51228,47785,47564,40,51217,46160,50612,32,44552,51648,41,10,45,32,50,54665,
      58,32,48712,32,51460,10,45,32,51,54665,48512,53552,58,32,48376,47928,
      40,47560,53356,45796,50868,41,10,45,32,47592,32,47560,51648,47561,32,51460,
      58,32,54644,49884,53468,44536,32,51,48,44060,32,54620,32,51460,10>>

platform_profile(platform_label) ==
    IF StartsWith(platform_label, <<45348, 51060, 48260>>) THEN ProfileNaver
    ELSE IF StartsWith(platform_label, <<54000, 49828, 53664, 47532>>) THEN ProfileTistory
    ELSE ProfileBlogger

\* ", ".join(keywords)
RECURSIVE JoinComma(_)
JoinComma(list) ==
    IF list = <<>> THEN <<>>
    ELSE IF Len(list) = 1 THEN list[1]
    ELSE list[1] \o <<44, 32>> \o JoinComma(Tail(list))

\* reviews_rule of build_misharp_prompt_narrative
ReviewsRuleSummarise ==
    <<54980,44592,32,53581,49828,53944,47484,32,44284,51109,32,50630,51060,32,50836,50557,
      54616,46104,44,32,49892,51228,32,48152,51025,32,51473,49900,51004,47196,32,47928,
      51109,54805,32,54,126,49,48,51460,47196,32,51221,47532,54616,46972,46>>

ReviewsRuleOmit ==
    <<54980,44592,32,53581,49828,53944,44032,32,48708,50612,32,51080,51004,47732,32,8216,
      44256,44061,32,54980,44592,32,48152,51025,32,50836,50557,8217,32,49465,49496,51012,
      32,51208,45824,32,50416,51648,32,47560,46972,46>>

build_misharp_prompt_narrative(platform, product_name, primary_kw, kws, user_notes, product_url, size_spec_text, reviews_text) ==
    LET kws_joined == JoinComma(kws)
        url == fix_url_spacing(product_url)
        reviews_rule == IF Strip(reviews_text) # <<>> THEN ReviewsRuleSummarise
                        ELSE ReviewsRuleOmit
    IN  Strip(MisharpText1 \o platform_profile(platform) \o MisharpText2 \o primary_kw
              \o MisharpText3 \o kws_joined \o MisharpText4 \o reviews_rule
              \o MisharpText5 \o product_name \o MisharpText6 \o url
              \o MisharpText7 \o kws_joined \o MisharpText8 \o user_notes
              \o MisharpText9 \o size_spec_text \o MisharpText10 \o reviews_text
              \o MisharpText11)

build_general_prompt(platform, topic, kws, notes) ==
    LET kws_joined == JoinComma(kws)
    IN  Strip(GeneralText1 \o platform \o GeneralText2 \o kws_joined \o GeneralText3
              \o platform_profile(platform) \o GeneralText4 \o topic \o GeneralText5
              \o notes \o GeneralText6)

-----------------------------------------------------------------------------
(* OpenAI: get_openai_client, call_openai_text *)

\* "OPENAI_API_KEY에 비ASCII(숨은 문자)가 포함되어 있습니다. ..." (line 136)
ErrNonAscii ==
    <<79,80,69,78,65,73,95,65,80,73,95,75,69,89,50640,32,
      48708,65,83,67,73,73,40,49704,51008,32,47928,51088,41,44032,32,54252,
      54632,46104,50612,32,51080,49845,45768,45796,46,32,83,116,114,101,97,109,
      108,105,116,32,83,101,99,114,101,116,115,50640,49436,32,53412,47484,
      32,45796,49884,32,48537,50668,45347,50612,32,51452,49464,50836,46>>

\* "OpenAI 라이브러리 또는 API 키가 없습니다." (line 139)
ErrNoClient ==
    <<79,112,101,110,65,73,32,46972,51060,48652,47084,47532,32,46608,45716,32,
      65,80,73,32,53412,44032,32,50630,49845,45768,45796,46>>

\* "(테스트 모드) OpenAI 호출 불가.\n\n" (line 146)
PlaceholderLabel ==
    <<40,53580,49828,53944,32,47784,46300,41,32,79,112,101,110,65,73,32,
      54840,52636,32,48520,44032,46,10,10>>

\* prompt[:1800] of call_openai_text
PromptCut == 1800

\* st.secrets.get(key, default): secrets is a mapping with the keys it holds.
SecretsGet(secrets_map, key, default) ==
    IF key \in secrets_map.keys THEN secrets_map[key] ELSE default

\* get_openai_client without the test for non-ASCII characters in the key.
get_openai_client_noascii(secrets_map, lib) ==
    LET api_key == Strip(SecretsGet(secrets_map, "OPENAI_API_KEY", <<>>))
    IN  IF api_key = <<>> \/ ~lib
        THEN [client |-> FALSE, err |-> ErrNoClient]
        ELSE [client |-> TRUE, err |-> <<>>]

\* get_openai_client: whether a client is returned, and the error text.
get_openai_client(secrets_map, lib) ==
    LET api_key == Strip(SecretsGet(secrets_map, "OPENAI_API_KEY", <<>>))
    IN  IF \E i \in 1..Len(api_key) : api_key[i] > 127
        THEN [client |-> FALSE, err |-> ErrNonAscii]
        ELSE IF api_key = <<>> \/ ~lib
        THEN [client |-> FALSE, err |-> ErrNoClient]
        ELSE [client |-> TRUE, err |-> <<>>]

\* The text call_openai_text returns when get_openai_client gave no client.
Placeholder(err, prompt_text) ==
    PlaceholderLabel \o err \o <<10, 10>> \o Take(prompt_text, PromptCut)

-----------------------------------------------------------------------------
(* The generate handler *)

\* `not topic_text.strip()`, the validation of the handler.
TopicMissing_nostrip(topic) == topic = <<>>

TopicMissing(topic) == Strip(topic) = <<>>

\* topic_text.strip().split()[0]
FirstWord(topic) ==
    LET t == Strip(topic) IN SubSeq(t, 1, SkipNonSpaces(t, 1) - 1)

\* primary_kw of the handler
PrimaryKw(kws, topic) ==
    IF kws # <<>> THEN kws[1]
    ELSE IF Strip(topic) # <<>> THEN FirstWord(topic)
    ELSE <<50668, 49457, 51032, 47448>>

\* "미샵 패션 아이템 글" and "기타 주제 글", the options of the post type selectbox
PostTypeMisharp == <<48120,49397,32,54056,49496,32,50500,51060,53596,32,44544>>
PostTypeGeneral == <<44592,53440,32,51452,51228,32,44544>>

\* The prompt the handler builds from the form.
BuildPrompt(form, kws) ==
    IF form.post_type = PostTypeMisharp
    THEN build_misharp_prompt_narrative(form.platform, Strip(form.topic_text),
             PrimaryKw(kws, form.topic_text), kws, Strip(form.notes),
             Strip(form.product_url), Strip(form.size_spec_text), Strip(form.reviews_text))
    ELSE build_general_prompt(form.platform, Strip(form.topic_text), kws, Strip(form.notes))

\* `$` under re.MULTILINE: at the end of the text or just before a line feed.
AtLineEnd(x, p) == p = Len(x) + 1 \/ x[p] = 10

\* One iteration of the group (#\S+\s*) starting at p can end at every index
\* from the end of the whitespace after the longest \S+ down to p + 2; the
\* regex engine tries them in that order (both quantifiers are greedy).
GroupEnds(x, p) ==
    IF p > Len(x) \/ x[p] # 35 THEN <<>>
    ELSE LET q == SkipNonSpaces(x, p + 1)
             r == SkipSpaces(x, q)
         IN  IF q = p + 1 THEN <<>> ELSE [i \in 1..(r - p - 1) |-> r - i + 1]

\* The least number of iterations in (#\S+\s*){8,}$.
BlockMin == 8

\* What the regex engine finds from the '#' at p for every number of
\* iterations already made, 0..BlockMin (more count as BlockMin): the index
\* after the match, 0 if there is none, at [n + 1].  After an iteration that
\* ends at e the engine first tries one more iteration from e, then the end
\* of line; the match is what the first end, in the order of GroupEnds, leads
\* to.  tbl holds the same for every '#' after p.
HashRow(x, p, tbl) ==
  Values(
    [k \in 1..(BlockMin + 1) |->
        LET ends == GroupEnds(x, p)
            made == IF k > BlockMin THEN BlockMin ELSE k
            via == [i \in 1..Len(ends) |->
                       LET more == IF ends[i] \in DOMAIN tbl THEN tbl[ends[i]][made + 1]
                                   ELSE 0
                       IN  IF more # 0 THEN more
                           ELSE IF made >= BlockMin /\ AtLineEnd(x, ends[i]) THEN ends[i]
                           ELSE 0]
            found == {i \in 1..Len(ends) : via[i] # 0}
        IN  IF found = {} THEN 0
            ELSE via[CHOOSE i \in found : \A j \in found : i <= j]])

\* tbl with the rows of the '#' at hashes[lo..hi], the last one first.  (The
\* two branches of the test are the same; the test makes the upper half be
\* evaluated before the lower begins, which keeps the evaluation shallow.)
RECURSIVE HashRows(_, _, _, _, _)
HashRows(x, hashes, lo, hi, tbl) ==
    IF lo > hi THEN tbl
    ELSE IF lo = hi THEN (hashes[lo] :> HashRow(x, hashes[lo], tbl)) @@ tbl
    ELSE LET mid == (lo + hi) \div 2
             upper == HashRows(x, hashes, mid + 1, hi, tbl)
         IN  IF DOMAIN upper = {} THEN HashRows(x, hashes, lo, mid, upper)
             ELSE HashRows(x, hashes, lo, mid, upper)

\* re.sub(r"(#\S+\s*){8,}$", "", x, flags=re.MULTILINE): matches are looked
\* for from left to right, each from the end of the one before.
RECURSIVE DropHashRuns(_, _, _, _, _)
DropHashRuns(x, hashes, tbl, k, from) ==
    IF k > Len(hashes) THEN From(x, from)
    ELSE IF hashes[k] < from THEN DropHashRuns(x, hashes, tbl, k + 1, from)
    ELSE LET e == tbl[hashes[k]][1]
         IN  IF e = 0 THEN DropHashRuns(x, hashes, tbl, k + 1, from)
             ELSE SubSeq(x, from, hashes[k] - 1) \o DropHashRuns(x, hashes, tbl, k + 1, e)

\* body = re.sub(r"(#\S+\s*){8,}$", "", body, flags=re.MULTILINE).rstrip()
StripHashtagBlock(x) ==
    LET hashes == SelectSeq([p \in 1..Len(x) |-> p], LAMBDA p : x[p] = 35)
        tbl == HashRows(x, hashes, 1, Len(hashes), <<>>)
    IN  RStrip(DropHashRuns(x, hashes, tbl, 1, 1))

\* required of the handler
RequiredFor(post_type) == IF post_type = PostTypeMisharp THEN ProductRequired ELSE <<>>

\* The document and its HTML, stored with the title and the tag line.
Rendered(title_guess, tags, full_md) ==
    [title_guess |-> title_guess, tags_line |-> tags, full_md |-> full_md,
     html_for_naver |-> md_to_html_for_naver(full_md)]

\* Title, body without its hashtag block, and tag line joined and normalized.
Assembled(title_guess, body1, tags) ==
    Rendered(title_guess, tags,
             normalize_spaces(Strip(title_guess \o <<10, 10>> \o body1) \o <<10, 10>> \o tags))

\* The handler from the split on.
AfterSplit(tb, tags) == Assembled(tb.title, StripHashtagBlock(tb.body), tags)

\* Everything the handler computes from the text call_openai_text returned.
PostProcess(raw_text, form, kws) ==
    AfterSplit(split_title_and_body(normalize_spaces(raw_text), Strip(form.topic_text)),
               ensure_hashtags_30(RequiredFor(form.post_type), kws))

-----------------------------------------------------------------------------
(* Specification of the page: script runs with the session state *)

SessionKeys == {"generated_title", "generated_md", "generated_html"}

\* st.secrets with the key OPENAI_API_KEY.
SecretsWithKey(v) == [keys |-> {"OPENAI_API_KEY"}, OPENAI_API_KEY |-> v]

\* Values of OPENAI_API_KEY: "sk-a", and "sk-a" followed by a no-break space.
PlainKey == <<115, 107, 45, 97>>
PaddedKey == <<115, 107, 45, 97, 160>>

\* The secrets and the import the script can find: no key, the key "", the
\* key "sk-가", a plain key without the library, and the two keys with it.
Environments ==
    {[secrets |-> NoSecrets, lib |-> TRUE],
     [secrets |-> SecretsWithKey(<<>>), lib |-> TRUE],
     [secrets |-> SecretsWithKey(<<115, 107, 45, 44032>>), lib |-> TRUE],
     [secrets |-> SecretsWithKey(PlainKey), lib |-> FALSE],
     [secrets |-> SecretsWithKey(PlainKey), lib |-> TRUE],
     [secrets |-> SecretsWithKey(PaddedKey), lib |-> TRUE]}

\* The options of the platform radio.
PlatformNaver == <<45348,51060,48260,40,45348,51060,48260,32,83,69,79,41>>
PlatformTistory ==
    <<54000,49828,53664,47532,40,45796,51020,47,52852,52852,50724,32,83,69,79,41>>
PlatformBlogger == <<48660,47196,44144,40,44396,44544,32,83,69,79,41>>

\* Topics: "", " \t" and " Knit wear ".
Topics == {<<>>, <<32, 9>>, <<32, 75, 110, 105, 116, 32, 119, 101, 97, 114, 32>>}

\* A keyword field: "knit, Knit ,wool".
SomeKeywords == <<107,110,105,116,44,32,75,110,105,116,32,44,119,111,111,108>>

\* A memo long enough to push the general prompt past PromptCut characters:
\* lines "- memo memo memo" of 16 characters and a line feed.
MemoLines == 80
LongMemo ==
    [i \in 1..(17 * MemoLines) |->
        LET k == ((i - 1) % 17) + 1
        IN  <<45,32,109,101,109,111,32,109,101,109,111,32,109,101,109,111,10>>[k]]

\* The fields other than the topic, four ways of filling them in: a general
\* post with nothing else; a general post with keywords and the long memo; a
\* product post with keywords, the URL "https: //m.kr/p", a memo "soft", the
\* size table "| S | 55 |" and the review "good"; a product post with nothing else.
OtherFields ==
    {[platform |-> PlatformNaver, post_type |-> PostTypeGeneral, kw_csv |-> <<>>,
      notes |-> <<>>, product_url |-> <<>>, size_spec_text |-> <<>>, reviews_text |-> <<>>],
     [platform |-> PlatformBlogger, post_type |-> PostTypeGeneral, kw_csv |-> SomeKeywords,
      notes |-> LongMemo, product_url |-> <<>>, size_spec_text |-> <<>>,
      reviews_text |-> <<>>],
     [platform |-> PlatformTistory, post_type |-> PostTypeMisharp, kw_csv |-> SomeKeywords,
      notes |-> <<115, 111, 102, 116>>,
      product_url |-> <<104,116,116,112,115,58,32,47,47,109,46,107,114,47,112>>,
      size_spec_text |-> <<124,32,83,32,124,32,53,53,32,124>>,
      reviews_text |-> <<103,111,111,100>>],
     [platform |-> PlatformNaver, post_type |-> PostTypeMisharp, kw_csv |-> <<>>,
      notes |-> <<>>, product_url |-> <<>>, size_spec_text |-> <<>>, reviews_text |-> <<>>]}

\* The form as the script reads it in one run.
Forms ==
    {[topic_text |-> t, platform |-> o.platform, post_type |-> o.post_type,
      kw_csv |-> o.kw_csv, notes |-> o.notes, product_url |-> o.product_url,
      size_spec_text |-> o.size_spec_text, reviews_text |-> o.reviews_text] :
        t \in Topics, o \in OtherFields}

\* Texts the API may return: "", "abc", a title with a body and eight tags,
\* a labelled title with a body ending in a colon, and a post with a table.
Replies ==
    {<<>>,
     <<97, 98, 99>>,
     <<78,105,99,101,32,107,110,105,116,10,10,66,111,100,121,46,10,10,
       35,97,32,35,98,32,35,99,32,35,100,32,35,101,32,35,102,32,35,103,32,35,104>>,
     <<51228,47785,58,32,87,111,111,108,32,100,97,121,10,110,111,116,101,58>>,
     <<80,111,115,116,32,111,110,101,10,124,32,97,32,124,32,98,32,124,10,
       124,45,45,45,124,45,45,45,124,10,124,32,49,32,124,32,50,32,124>>}

InitApp ==
    /\ pc = "page"
    /\ \E env \in Environments : secrets = env.secrets /\ openai_lib = env.lib
    /\ session_state = EmptySession
    /\ topic_text = <<>>
    /\ pressed = FALSE
    /\ outcome = "none"
    /\ result_shown = "info"
    /\ prompt = <<>>
    /\ raw = <<>>
    /\ prompt_built = FALSE
    /\ api_called = FALSE
    /\ NormIdle
    /\ TagsIdle
    /\ SplitIdle
    /\ HtmlIdle

\* The result section of a run that reaches it.
ResultSection(session) == IF "generated_md" \in session.keys THEN "tabs" ELSE "info"

\* The three session writes of the handler.
StoreResult(session, r) ==
    [keys |-> session.keys \cup SessionKeys, generated_title |-> r.title_guess,
     generated_md |-> r.full_md, generated_html |-> r.html_for_naver]

\* A run of the script in which the generate button was not pressed.
Rerun ==
    /\ pc = "page"
    /\ \E t \in Topics : topic_text' = t
    /\ pressed' = FALSE
    /\ outcome' = "none"
    /\ prompt_built' = FALSE
    /\ api_called' = FALSE
    /\ result_shown' = ResultSection(session_state)
    /\ UNCHANGED <<pc, secrets, openai_lib, session_state, prompt, raw,
                   normVars, tagVars, splitVars, htmlVars>>

\* The button pressed with no topic: st.error, then st.stop ends the run.
PressRejected ==
    /\ pc = "page"
    /\ \E form \in Forms :
        /\ TopicMissing(form.topic_text)
        /\ topic_text' = form.topic_text
    /\ pressed' = TRUE
    /\ outcome' = "error"
    /\ prompt_built' = FALSE
    /\ api_called' = FALSE
    /\ result_shown' = "none"
    /\ UNCHANGED <<pc, secrets, openai_lib, session_state, prompt, raw,
                   normVars, tagVars, splitVars, htmlVars>>

\* The writes of a handler run that reaches the end: the widgets' values, the
\* prompt, the text worked on, and the three session values.
HandlerWrites(form, prompt_text, text, r) ==
    /\ topic_text' = form.topic_text
    /\ prompt' = prompt_text
    /\ raw' = text
    /\ tags_line' = r.tags_line
    /\ session_state' = StoreResult(session_state, r)

\* The handler from line 622 on, with the text call_openai_text returned.
HandlerRun(form, kws, prompt_text, text) ==
    HandlerWrites(form, prompt_text, text, PostProcess(text, form, kws))

\* The handler when call_openai_text returns the placeholder.
PlaceholderRun(form, kws, prompt_text) ==
    HandlerRun(form, kws, prompt_text,
               Placeholder(get_openai_client(secrets, openai_lib).err, prompt_text))

\* The button pressed while get_openai_client gives no client: the handler
\* works on the placeholder text.
PressPlaceholder ==
    /\ pc = "page"
    /\ ~get_openai_client(secrets, openai_lib).client
    /\ \E form \in Forms :
        /\ ~TopicMissing(form.topic_text)
        /\ LET kws == keywords_from_csv(form.kw_csv)
           IN  PlaceholderRun(form, kws, BuildPrompt(form, kws))
    /\ pressed' = TRUE
    /\ outcome' = "success"
    /\ prompt_built' = TRUE
    /\ api_called' = FALSE
    /\ result_shown' = ResultSection(session_state')
    /\ UNCHANGED <<pc, secrets, openai_lib, normVars, required, keywords, base,
                   splitVars, htmlVars>>

\* The button pressed with a client: the API returns a text.
PressGenerated ==
    /\ pc = "page"
    /\ get_openai_client(secrets, openai_lib).client
    /\ \E form \in Forms, reply \in Replies :
        /\ ~TopicMissing(form.topic_text)
        /\ LET kws == keywords_from_csv(form.kw_csv)
           IN  HandlerRun(form, kws, BuildPrompt(form, kws), reply)
    /\ pressed' = TRUE
    /\ outcome' = "success"
    /\ prompt_built' = TRUE
    /\ api_called' = TRUE
    /\ result_shown' = ResultSection(session_state')
    /\ UNCHANGED <<pc, secrets, openai_lib, normVars, required, keywords, base,
                   splitVars, htmlVars>>

\* The button pressed with a client: the API call raises, nothing catches it
\* and the run ends there.
PressFailed ==
    /\ pc = "page"
    /\ get_openai_client(secrets, openai_lib).client
    /\ \E form \in Forms :
        /\ ~TopicMissing(form.topic_text)
        /\ topic_text' = form.topic_text
    /\ pressed' = TRUE
    /\ outcome' = "exception"
    /\ prompt_built' = TRUE
    /\ api_called' = TRUE
    /\ result_shown' = "none"
    /\ UNCHANGED <<pc, secrets, openai_lib, session_state, raw, prompt,
                   normVars, tagVars, splitVars, htmlVars>>

NextApp == Rerun \/ PressRejected \/ PressPlaceholder \/ PressGenerated \/ PressFailed

SpecApp == InitApp /\ [][NextApp]_vars

\* A step is a generate press with this kind of topic: the button started the
\* run and the topic field held it.
PressedBlank == pressed' /\ Strip(topic_text') = <<>>
PressedFilled == pressed' /\ Strip(topic_text') # <<>>

\* C9: a generate press with an empty or whitespace-only topic reports the
\* validation error, builds no prompt, does not call the API and leaves the
\* session state (the keys present and the three values) exactly as it was.
C9_RejectedPress ==
    [][PressedBlank =>
          /\ outcome' = "error"
          /\ ~prompt_built'
          /\ ~api_called'
          /\ prompt' = prompt /\ raw' = raw
          /\ session_state' = session_state]_vars

\* C9 happens: after a successful generation, a press with the topic " \t"
\* was rejected and the earlier document is still in the session state.
C9_Witness ==
    /\ pressed /\ topic_text = <<32, 9>> /\ outcome = "error"
    /\ session_state.keys = SessionKeys
    /\ session_state.generated_md # <<>>
    /\ ~prompt_built /\ ~api_called

\* The key as the claim reads it from the secrets, "" when there is none.
KeyInSecrets == IF "OPENAI_API_KEY" \in secrets.keys THEN secrets.OPENAI_API_KEY ELSE <<>>

HasNonAscii(x) == \E i \in 1..Len(x) : x[i] > 127

EndsWith(x, suffix) ==
    Len(suffix) <= Len(x) /\ SubSeq(x, Len(x) - Len(suffix) + 1, Len(x)) = suffix

\* What C10 promises of a press: no API call, the labelled placeholder with
\* the first PromptCut characters of the prompt, no exception, and the three
\* session values stored, the HTML being the rendering of the stored document.
PlaceholderPress ==
    /\ ~api_called'
    /\ outcome' = "success"
    /\ prompt_built' /\ prompt' # <<>>
    /\ StartsWith(raw', PlaceholderLabel)
    /\ EndsWith(raw', Take(prompt', PromptCut))
    /\ session_state'.keys = SessionKeys
    /\ session_state'.generated_title # <<>>
    /\ session_state'.generated_md # <<>>
    /\ session_state'.generated_html = md_to_html_for_naver(session_state'.generated_md)
    /\ result_shown' = "tabs"

\* C10 as stated: whenever the key is missing, empty or holds a non-ASCII
\* character anywhere, or the library is not importable, a generate press
\* with a topic is a placeholder press.
C10_AnyNonAscii ==
    [][(PressedFilled /\ (KeyInSecrets = <<>> \/ HasNonAscii(KeyInSecrets) \/ ~openai_lib))
          => PlaceholderPress]_vars

\* C10, amended: whenever the key with its surrounding whitespace stripped is
\* empty (or missing) or holds a non-ASCII character, or the library is not
\* importable, a generate press with a topic is a placeholder press.
C10_NonAsciiAfterStrip ==
    [][(PressedFilled /\ (Strip(KeyInSecrets) = <<>> \/ HasNonAscii(Strip(KeyInSecrets))
                            \/ ~openai_lib))
          => PlaceholderPress]_vars

\* C10 happens: with the key "sk-가" and the library present, a press whose
\* prompt is longer than PromptCut stored a document made from the placeholder.
C10_Witness ==
    /\ secrets = SecretsWithKey(<<115, 107, 45, 44032>>) /\ openai_lib
    /\ pressed /\ outcome = "success" /\ ~api_called
    /\ Len(prompt) > PromptCut
    /\ raw = PlaceholderLabel \o ErrNonAscii \o <<10, 10>> \o SubSeq(prompt, 1, PromptCut)
    /\ session_state.keys = SessionKeys

\* A generation has succeeded in this session: its result is stored.
HasResult == "generated_md" \in session_state.keys

\* C11: once a generation has succeeded, every later run of the page shows the
\* stored result in the result tabs, and only a successful generation replaces
\* it; the run of a rejected or failed press shows it too.
C11_ResultStaysVisible ==
    [][HasResult => /\ result_shown' = "tabs"
                    /\ (outcome' # "success" => session_state' = session_state)]_vars

\* The number of line breaks in x.
LineBreaks(x) == Len(SelectSeq(x, LAMBDA c : c = 10))

\* C12: normalize_spaces removes a line break only from a run of three or more
\* line breaks or from the leading/trailing whitespace of the text; the colon
\* rule removes none, so the output has as many line breaks as the trailing
\* blank rule, the line break rule and the final strip alone leave.
C12_ColonKeepsLineBreaks ==
    pc \in {"norm1", "norm2"}
        => LineBreaks(s1) = LineBreaks(Strip(NewlineRunSub(TrailingBlankSub(s))))

\* C13: after a successful generate press the stored document ends with the
\* tag line ensure_hashtags_30 returned for that press, on a line of its own:
\* a line break, then exactly the tag line, then nothing.
C13_TagLineLast ==
    (pressed /\ outcome = "success")
        => EndsWith(session_state.generated_md, <<10>> \o tags_line)

====
